---------------------------- MODULE Spec2Model ----------------------------
(***************************************************************************)
(* Model of src/main.py: the line-oriented JSON-RPC dispatcher             *)
(* SimpleMCPCalculator and the transport loop main().                      *)
(*                                                                         *)
(* Python values are records of one shape, [k, n, s]:                      *)
(*   k  the Python type ("null", "bool", "int", "float", "str", "list",    *)
(*      "dict"), "bigint" for an int beyond the range of float, and        *)
(*      "absent" for a key that a mapping does not have;                   *)
(*   n  the number (an int or bool as itself, a float as a count of        *)
(*      halves, so 5 is 2.5; a list or dict as its length);                *)
(*   s  the text of a str.                                                 *)
(* A mapping that the code looks into carries, besides, one field per key  *)
(* the code reads.  Formatted text is a sequence of string fragments.      *)
(***************************************************************************)
EXTENDS Integers, Sequences, FiniteSets, TLC

VARIABLES
    stdin,      \* the lines of the input stream not yet read
    pc,         \* position of main(): "read", "strip", "handle_request",
                \* "print", "JSONDecodeError", "Exception", "done"
    line,       \* the line main() holds
    request,    \* json.loads(line)
    response,   \* what handle_request returned
    exc,        \* str(e) of the exception main() caught
    now,        \* the clock datetime.now() reads
    stdout,     \* the response lines written and flushed
    consumed,   \* history: every line read so far
    served,     \* history: for each written response, the line it answers,
                \* the clock it was computed at and the functions it called
    calls       \* functions of the dispatcher entered for the current line

vars == <<stdin, pc, line, request, response, exc, now, stdout, consumed, served, calls>>

---------------------------------------------------------------------------
(* Bounds of the model *)

MaxLines == 2   \* lines on the input stream of the transport loop
MaxId == 1      \* integer request ids are 0 .. MaxId

---------------------------------------------------------------------------
(* Python values *)

None == [k |-> "null", n |-> 0, s |-> ""]
Absent == [k |-> "absent", n |-> 0, s |-> ""]
JStr(x) == [k |-> "str", n |-> 0, s |-> x]
JInt(i) == [k |-> "int", n |-> i, s |-> ""]
JFloat(halves) == [k |-> "float", n |-> halves, s |-> ""]
JBool(b) == [k |-> "bool", n |-> IF b THEN 1 ELSE 0, s |-> ""]
JList(len) == [k |-> "list", n |-> len, s |-> ""]
JDict(len) == [k |-> "dict", n |-> len, s |-> ""]
BigInt == [k |-> "bigint", n |-> 0, s |-> "1e400"]
Surrogate == JStr("\\ud800")
EmptyDict == [x \in {} |-> None]

\* isinstance(v, dict)
IsDict(v) == v.k = "dict"

\* d.get(key) on a mapping d
Get(d, key) == IF d[key].k = "absent" THEN None ELSE d[key]

\* d.get(key, default) on a mapping d
GetOr(d, key, default) == IF d[key].k = "absent" THEN default ELSE d[key]

\* mutant of Truthy: the test `v is None` in place of `not v`
TruthyNotNone(v) == v.k \notin {"null", "absent"}

\* bool(v): the truth value Python's `not v` negates
Truthy(v) ==
    CASE v.k \in {"null", "absent"} -> FALSE
      [] v.k \in {"bool", "int", "float", "list", "dict"} -> v.n # 0
      [] v.k = "str" -> v.s # ""
      [] OTHER -> TRUE

\* type(v).__name__
TypeName(v) ==
    CASE v.k = "null" -> "NoneType"
      [] v.k = "bigint" -> "int"
      [] OTHER -> v.k

\* str(v), as an f-string embeds it
PyStr(v) ==
    CASE v.k = "str" -> <<v.s>>
      [] v.k = "int" -> <<ToString(v.n)>>
      [] v.k = "float" -> <<ToString(v.n \div 2), IF v.n % 2 = 0 THEN ".0" ELSE ".5">>
      [] v.k = "bool" -> <<IF v.n = 1 THEN "True" ELSE "False">>
      [] v.k = "null" -> <<"None">>
      [] v.k = "list" -> <<IF v.n = 0 THEN "[]" ELSE "[1]">>
      [] v.k = "dict" -> <<IF v.n = 0 THEN "{}" ELSE "{'a': 1}">>
      [] OTHER -> <<v.s>>

\* a value returned, or an exception in flight; calls lists the functions entered
Return(value) == [raised |-> FALSE, value |-> value, calls |-> <<>>]
Raise(type, text) == [raised |-> TRUE, type |-> type, text |-> text, calls |-> <<>>]
Called(fns, out) == [out EXCEPT !.calls = fns \o @]

\* str(e) of the AttributeError of v.get(...) when v is no dict
NoGet(v) == <<"'", TypeName(v), "' object has no attribute 'get'">>

\* the strings float() reads as a number, with the float each one denotes (in halves)
Numerals == ("2" :> 4) @@ ("2.5" :> 5) @@ (" 3 " :> 6)

\* float(v)
PyFloat(v) ==
    CASE v.k \in {"int", "bool"} -> Return(JFloat(2 * v.n))
      [] v.k = "float" -> Return(v)
      [] v.k = "str" ->
            IF v.s \in DOMAIN Numerals
            THEN Return(JFloat(Numerals[v.s]))
            ELSE Raise("ValueError", <<"could not convert string to float: '", v.s, "'">>)
      [] v.k = "bigint" -> Raise("OverflowError", <<"int too large to convert to float">>)
      [] OTHER -> Raise("TypeError",
                        <<"float() argument must be a string or a real number, not '",
                          TypeName(v), "'">>)

---------------------------------------------------------------------------
(* class SimpleMCPCalculator *)

\* an error argument of create_response
Err(code, message) == [code |-> code, message |-> message]

\* error.get(key, default)
ErrGet(error, key, default) == IF key \in DOMAIN error THEN error[key] ELSE default

\* mutant of create_response: the result field is set beside the error field
create_response_both(request_id, result, error) ==
    LET resp == [jsonrpc |-> "2.0",
                 id |-> IF request_id # None THEN request_id ELSE JStr("unknown"),
                 result |-> IF result # None THEN result ELSE EmptyDict]
    IN  IF error # None /\ DOMAIN error # {}
        THEN resp @@ [error |-> [code |-> ErrGet(error, "code", -32603),
                                 message |-> ErrGet(error, "message", <<"Internal error">>),
                                 data |-> ErrGet(error, "data", None)]]
        ELSE resp

\* mutant of create_response: the id is passed on as it is, None included
create_response_raw_id(request_id, result, error) ==
    LET resp == [jsonrpc |-> "2.0", id |-> request_id]
    IN  IF error # None /\ DOMAIN error # {}
        THEN resp @@ [error |-> [code |-> ErrGet(error, "code", -32603),
                                 message |-> ErrGet(error, "message", <<"Internal error">>),
                                 data |-> ErrGet(error, "data", None)]]
        ELSE resp @@ [result |-> IF result # None THEN result ELSE EmptyDict]

create_response(request_id, result, error) ==
    LET resp == [jsonrpc |-> "2.0",
                 id |-> IF request_id # None THEN request_id ELSE JStr("unknown")]
    IN  IF error # None /\ DOMAIN error # {}
        THEN resp @@ [error |-> [code |-> ErrGet(error, "code", -32603),
                                 message |-> ErrGet(error, "message", <<"Internal error">>),
                                 data |-> ErrGet(error, "data", None)]]
        ELSE resp @@ [result |-> IF result # None THEN result ELSE EmptyDict]

add_numbers(num1, num2, clock) ==
    LET f1 == PyFloat(num1)
        f2 == PyFloat(num2)
        e == IF f1.raised THEN f1 ELSE f2
    IN  IF ~f1.raised /\ ~f2.raised
        THEN LET n1 == f1.value
                 n2 == f2.value
                 sum == n1.n + n2.n
             IN  Return([number1 |-> n1,
                         number2 |-> n2,
                         result |-> IF sum % 2 = 0 THEN JInt(sum \div 2) ELSE JFloat(sum),
                         operation |-> "addition",
                         timestamp |-> clock])
        ELSE IF e.type \in {"ValueError", "TypeError"}
        THEN Return([number1 |-> num1,
                     number2 |-> num2,
                     error |-> <<"Invalid numbers provided: ">> \o e.text,
                     operation |-> "addition",
                     timestamp |-> clock])
        ELSE e

\* mutant of handle_initialize: the version the server speaks, not the one sent
handle_initialize_own_version(request_id, params) ==
    IF ~IsDict(params)
    THEN Raise("AttributeError", NoGet(params))
    ELSE LET protocol_version == Get(params, "protocolVersion")
         IN  IF ~Truthy(protocol_version)
             THEN Return(create_response(request_id, None,
                     Err(-32602, <<"Invalid params: protocolVersion is required">>)))
             ELSE Return(create_response(request_id,
                     [protocolVersion |-> JStr("2024-11-05"),
                      capabilities |-> [tools |-> EmptyDict,
                                        resources |-> EmptyDict,
                                        prompts |-> EmptyDict],
                      serverInfo |-> [name |-> "Simple MCP Calculator",
                                      version |-> "1.0.0",
                                      description |-> "Simple calculator that adds two numbers"]],
                     None))

handle_initialize(request_id, params) ==
    IF ~IsDict(params)
    THEN Raise("AttributeError", NoGet(params))
    ELSE LET protocol_version == Get(params, "protocolVersion")
         IN  IF ~Truthy(protocol_version)
             THEN Return(create_response(request_id, None,
                     Err(-32602, <<"Invalid params: protocolVersion is required">>)))
             ELSE Return(create_response(request_id,
                     [protocolVersion |-> protocol_version,
                      capabilities |-> [tools |-> EmptyDict,
                                        resources |-> EmptyDict,
                                        prompts |-> EmptyDict],
                      serverInfo |-> [name |-> "Simple MCP Calculator",
                                      version |-> "1.0.0",
                                      description |-> "Simple calculator that adds two numbers"]],
                     None))

\* the tool descriptor of tools/list
AddNumbersTool ==
    [name |-> "add_numbers",
     description |-> "Add two numbers together",
     inputSchema |->
        [type |-> "object",
         properties |-> [number1 |-> [type |-> "number", description |-> "First number to add"],
                         number2 |-> [type |-> "number", description |-> "Second number to add"]],
         required |-> <<"number1", "number2">>]]

handle_tools_list(request_id, params) ==
    Return(create_response(request_id, [tools |-> <<AddNumbersTool>>], None))

\* the f-string of the text content block
result_text(calculation_result) ==
    IF "error" \in DOMAIN calculation_result
    THEN <<"Addition Error:\nNumber 1: ">> \o PyStr(calculation_result.number1)
            \o <<"\nNumber 2: ">> \o PyStr(calculation_result.number2)
            \o <<"\nError: ">> \o calculation_result.error
            \o <<"\nTimestamp: ", ToString(calculation_result.timestamp)>>
    ELSE <<"Addition Result:\n">> \o PyStr(calculation_result.number1)
            \o <<" + ">> \o PyStr(calculation_result.number2)
            \o <<" = ">> \o PyStr(calculation_result.result)
            \o <<"\nTimestamp: ", ToString(calculation_result.timestamp)>>

\* mutant of tools_call_try: add_numbers is called without the check for None
tools_call_try_unchecked(request_id, tool_name, arguments, clock) ==
    IF tool_name = JStr("add_numbers")
    THEN IF ~IsDict(arguments)
         THEN Raise("AttributeError", NoGet(arguments))
         ELSE LET calc == add_numbers(Get(arguments, "number1"),
                                      Get(arguments, "number2"), clock)
              IN  Called(<<"add_numbers">>,
                    IF calc.raised
                    THEN calc
                    ELSE Return(create_response(request_id,
                            [content |-> <<[type |-> "text",
                                            text |-> result_text(calc.value)]>>,
                             isError |-> "error" \in DOMAIN calc.value],
                            None)))
    ELSE Return(create_response(request_id, None,
            Err(-32601, <<"Unknown tool: ">> \o PyStr(tool_name))))

\* the body of the try block of handle_tools_call
tools_call_try(request_id, tool_name, arguments, clock) ==
    IF tool_name = JStr("add_numbers")
    THEN IF ~IsDict(arguments)
         THEN Raise("AttributeError", NoGet(arguments))
         ELSE LET number1 == Get(arguments, "number1")
                  number2 == Get(arguments, "number2")
              IN  IF number1 = None \/ number2 = None
                  THEN Return(create_response(request_id, None,
                          Err(-32602, <<"Both number1 and number2 are required">>)))
                  ELSE LET calc == add_numbers(number1, number2, clock)
                       IN  Called(<<"add_numbers">>,
                             IF calc.raised
                             THEN calc
                             ELSE Return(create_response(request_id,
                                     [content |-> <<[type |-> "text",
                                                     text |-> result_text(calc.value)]>>,
                                      isError |-> "error" \in DOMAIN calc.value],
                                     None)))
    ELSE Return(create_response(request_id, None,
            Err(-32601, <<"Unknown tool: ">> \o PyStr(tool_name))))

\* params.get("arguments", {}): the default
NoArguments == [k |-> "dict", n |-> 0, s |-> "", number1 |-> Absent, number2 |-> Absent]

handle_tools_call(request_id, params, clock) ==
    IF ~IsDict(params)
    THEN Return(create_response(request_id, None,
            Err(-32602, <<"Invalid params: must be an object">>)))
    ELSE LET tool_name == Get(params, "name")
             arguments == GetOr(params, "arguments", NoArguments)
         IN  IF ~Truthy(tool_name)
             THEN Return(create_response(request_id, None,
                     Err(-32602, <<"Invalid params: 'name' is required">>)))
             ELSE LET out == tools_call_try(request_id, tool_name, arguments, clock)
                  IN  IF out.raised
                      THEN Called(out.calls,
                             Return(create_response(request_id, None,
                                Err(-32603, <<"Internal error: ">> \o out.text))))
                      ELSE out

\* the if/elif chain of the try block of handle_request
dispatch(method, request_id, params, clock) ==
    CASE method = JStr("initialize") ->
            Called(<<"handle_initialize">>, handle_initialize(request_id, params))
      [] method = JStr("tools/list") ->
            Called(<<"handle_tools_list">>, handle_tools_list(request_id, params))
      [] method = JStr("tools/call") ->
            Called(<<"handle_tools_call">>, handle_tools_call(request_id, params, clock))
      [] OTHER ->
            Return(create_response(request_id, None,
               Err(-32601, <<"Method not found: ">> \o PyStr(method))))

\* request.get("params", {}): the default
NoArgsField == [k |-> "absent", n |-> 0, s |-> "", number1 |-> Absent, number2 |-> Absent]
NoParams ==
    [k |-> "dict", n |-> 0, s |-> "",
     protocolVersion |-> Absent, name |-> Absent, arguments |-> NoArgsField]

\* mutant of handle_request: no try around the dispatch
handle_request_uncaught(req, clock) ==
    IF ~IsDict(req)
    THEN Return(create_response(None, None,
            Err(-32700, <<"Parse error: request must be an object">>)))
    ELSE LET jsonrpc == Get(req, "jsonrpc")
         IN  IF jsonrpc # JStr("2.0")
             THEN Return(create_response(Get(req, "id"), None,
                     Err(-32600, <<"Invalid Request: jsonrpc must be '2.0'">>)))
             ELSE LET method == Get(req, "method")
                  IN  IF ~Truthy(method)
                      THEN Return(create_response(Get(req, "id"), None,
                              Err(-32600, <<"Invalid Request: 'method' is required">>)))
                      ELSE dispatch(method, Get(req, "id"),
                                    GetOr(req, "params", NoParams), clock)

handle_request(req, clock) ==
    IF ~IsDict(req)
    THEN Return(create_response(None, None,
            Err(-32700, <<"Parse error: request must be an object">>)))
    ELSE LET jsonrpc == Get(req, "jsonrpc")
         IN  IF jsonrpc # JStr("2.0")
             THEN Return(create_response(Get(req, "id"), None,
                     Err(-32600, <<"Invalid Request: jsonrpc must be '2.0'">>)))
             ELSE LET method == Get(req, "method")
                  IN  IF ~Truthy(method)
                      THEN Return(create_response(Get(req, "id"), None,
                              Err(-32600, <<"Invalid Request: 'method' is required">>)))
                      ELSE LET params == GetOr(req, "params", NoParams)
                               request_id == Get(req, "id")
                               out == dispatch(method, request_id, params, clock)
                           IN  IF out.raised
                               THEN Called(out.calls,
                                      Return(create_response(request_id, None,
                                         Err(-32603, <<"Internal error: ">> \o out.text))))
                               ELSE out

---------------------------------------------------------------------------
(* The values json.loads can hand to handle_request *)

Present(v) == IF v.k = "absent" THEN 0 ELSE 1

\* an arguments value: a mapping with the two keys the code reads, or anything else
MkArgs(number1, number2) ==
    [k |-> "dict", n |-> Present(number1) + Present(number2), s |-> "",
     number1 |-> number1, number2 |-> number2]
ArgsOther(v) == [k |-> v.k, n |-> v.n, s |-> v.s, number1 |-> Absent, number2 |-> Absent]

\* a params value: a mapping with the three keys the code reads, or anything else
MkParams(protocolVersion, name, arguments) ==
    [k |-> "dict", n |-> Present(protocolVersion) + Present(name) + Present(arguments),
     s |-> "", protocolVersion |-> protocolVersion, name |-> name, arguments |-> arguments]
ParamsOther(v) ==
    [k |-> v.k, n |-> v.n, s |-> v.s,
     protocolVersion |-> Absent, name |-> Absent, arguments |-> ArgsOther(Absent)]

\* a request: a mapping with the four keys the code reads, or any other JSON value
MkRequest(jsonrpc, id, method, params) ==
    [k |-> "dict", n |-> Present(jsonrpc) + Present(id) + Present(method) + Present(params),
     s |-> "", jsonrpc |-> jsonrpc, id |-> id, method |-> method, params |-> params]
RequestOther(v) ==
    [k |-> v.k, n |-> v.n, s |-> v.s,
     jsonrpc |-> Absent, id |-> Absent, method |-> Absent, params |-> ParamsOther(Absent)]

NonMappings == {None, JList(0), JList(1), JStr("x"), JInt(1), JBool(TRUE)}
Jsonrpcs == {Absent, JStr("2.0"), JStr("1.0"), JFloat(4)}
Ids == {Absent, None, JStr("a"), Surrogate} \cup {JInt(i) : i \in 0..MaxId}
Methods == {Absent, None, JStr(""), JInt(0), JList(1), JStr("initialize"),
            JStr("tools/list"), JStr("tools/call"), JStr("foo/bar")}
Versions == {Absent, None, JStr(""), JInt(0), JStr("2024-11-05"), JInt(1)}
Names == {Absent, JStr(""), JStr("add_numbers"), JStr("other"), JList(1)}
Numbers == {Absent, None, JInt(2), JFloat(5), JBool(TRUE), JStr("2.5"), JStr(" 3 "),
            JStr("abc"), JList(1), BigInt}

ArgumentsValues ==
    {ArgsOther(v) : v \in NonMappings \cup {Absent}}
        \cup {MkArgs(a, b) : a \in Numbers, b \in Numbers}

Requests ==
    {RequestOther(v) : v \in NonMappings}
    \cup {MkRequest(j, i, m, ParamsOther(Absent)) : j \in Jsonrpcs, i \in Ids, m \in Methods}
    \cup {MkRequest(JStr("2.0"), i, m, ParamsOther(v)) :
            i \in Ids, m \in {JStr("initialize"), JStr("tools/list"), JStr("tools/call")},
            v \in NonMappings}
    \cup {MkRequest(JStr("2.0"), i, m, MkParams(v, Absent, ArgsOther(Absent))) :
            i \in Ids, m \in {JStr("initialize"), JStr("tools/list")}, v \in Versions}
    \cup {MkRequest(JStr("2.0"), i, JStr("tools/call"), MkParams(Absent, t, a)) :
            i \in Ids, t \in Names, a \in ArgumentsValues}

(* A line of input, by what line.strip() and json.loads make of it:         *)
(*   "blank"      nothing but whitespace;                                  *)
(*   "malformed"  json.loads raises JSONDecodeError;                       *)
(*   "limit"      json.loads raises another exception (RecursionError on   *)
(*                deep nesting, ValueError on an integer of over 4300      *)
(*                digits);                                                 *)
(*   "json"       json.loads returns value.                                *)
Blank == [kind |-> "blank", value |-> RequestOther(None)]
Malformed == [kind |-> "malformed", value |-> RequestOther(None)]
Limit == [kind |-> "limit", value |-> RequestOther(None)]
Json(v) == [kind |-> "json", value |-> v]

Lines == {Blank, Malformed, Limit} \cup {Json(v) : v \in Requests}

\* the lines the transport loop is run on: one or more for every path of main()
ToolsCall(id, number1, number2) ==
    Json(MkRequest(JStr("2.0"), id, JStr("tools/call"),
                   MkParams(Absent, JStr("add_numbers"), MkArgs(number1, number2))))
LoopLines ==
    {Blank, Malformed, Limit,
     Json(RequestOther(JList(1))),
     Json(MkRequest(JStr("1.0"), JInt(1), JStr("tools/list"), ParamsOther(Absent))),
     Json(MkRequest(JStr("2.0"), JInt(1), JStr("foo/bar"), ParamsOther(Absent))),
     Json(MkRequest(JStr("2.0"), JInt(1), JStr("initialize"),
                    MkParams(JStr("2024-11-05"), Absent, ArgsOther(Absent)))),
     Json(MkRequest(JStr("2.0"), JInt(1), JStr("initialize"), ParamsOther(None))),
     Json(MkRequest(JStr("2.0"), JInt(1), JStr("tools/list"), ParamsOther(Absent))),
     Json(MkRequest(JStr("2.0"), Absent, JStr("tools/list"), ParamsOther(Absent))),
     Json(MkRequest(JStr("2.0"), Surrogate, JStr("tools/list"), ParamsOther(Absent))),
     ToolsCall(JInt(1), JInt(2), JStr("2.5")),
     ToolsCall(JInt(1), JStr("abc"), JInt(2)),
     ToolsCall(JInt(1), BigInt, JInt(2))}

\* the lines of a session: the three methods, and one line for every other path of main()
SessionLines ==
    {Blank, Malformed, Limit,
     Json(MkRequest(JStr("2.0"), JInt(1), JStr("initialize"),
                    MkParams(JStr("2024-11-05"), Absent, ArgsOther(Absent)))),
     Json(MkRequest(JStr("2.0"), JInt(1), JStr("tools/list"), ParamsOther(Absent))),
     Json(MkRequest(JStr("2.0"), Surrogate, JStr("tools/list"), ParamsOther(Absent))),
     ToolsCall(JInt(1), JInt(2), JStr("2.5"))}

\* the sequences over S of length at most n
RECURSIVE SeqsUpTo(_, _)
SeqsUpTo(S, n) ==
    IF n = 0 THEN {<<>>}
    ELSE LET shorter == SeqsUpTo(S, n - 1)
         IN  shorter \cup {Append(q, x) : q \in shorter, x \in S}

---------------------------------------------------------------------------
(* main(): the transport loop *)

\* json.dumps(response, ensure_ascii=False) followed by print: a lone surrogate
\* cannot be encoded to the output stream
Encodable(resp) == resp.id # Surrogate

ParseErrorResponse ==
    [jsonrpc |-> "2.0", id |-> None,
     error |-> [code |-> -32700, message |-> <<"Parse error">>]]

InternalErrorResponse(text) ==
    [jsonrpc |-> "2.0", id |-> None,
     error |-> [code |-> -32603, message |-> <<"Internal error: ">> \o text]]

\* print(..., flush=True) of a response, with the history of what it answers
Write(resp) ==
    /\ stdout' = Append(stdout, resp)
    /\ served' = Append(served, [line |-> Len(consumed), at |-> now, calls |-> calls])

InitVars ==
    /\ pc = "read"
    /\ line = Blank
    /\ request = RequestOther(None)
    /\ response = ParseErrorResponse
    /\ exc = <<>>
    /\ now = 0
    /\ stdout = <<>>
    /\ consumed = <<>>
    /\ served = <<>>
    /\ calls = <<>>

Init == stdin \in SeqsUpTo(LoopLines, MaxLines) /\ InitVars

InitRequest == stdin \in {<<l>> : l \in Lines} /\ InitVars

InitSession == stdin \in SeqsUpTo(SessionLines, MaxLines + 1) /\ InitVars

\* line = sys.stdin.readline(), a line there is; the clock may have moved on
ReadLine ==
    /\ pc = "read"
    /\ stdin # <<>>
    /\ line' = Head(stdin)
    /\ stdin' = Tail(stdin)
    /\ consumed' = Append(consumed, Head(stdin))
    /\ now' \in {now, now + 1}
    /\ calls' = <<>>
    /\ pc' = "strip"
    /\ UNCHANGED <<request, response, exc, stdout, served>>

\* line = sys.stdin.readline() at the end of the stream: break
ReadEOF ==
    /\ pc = "read"
    /\ stdin = <<>>
    /\ pc' = "done"
    /\ UNCHANGED <<stdin, line, request, response, exc, now, stdout, consumed, served, calls>>

\* line = line.strip(); if not line: continue
SkipBlank ==
    /\ pc = "strip"
    /\ line.kind = "blank"
    /\ pc' = "read"
    /\ UNCHANGED <<stdin, line, request, response, exc, now, stdout, consumed, served, calls>>

\* mutant of ParseLine: a JSONDecodeError is left to the catch-all clause
ParseLineNoDecodeClause ==
    /\ pc = "strip"
    /\ line.kind # "blank"
    /\ CASE line.kind \in {"malformed", "limit"} ->
                /\ pc' = "Exception"
                /\ exc' = <<"Expecting value">>
                /\ UNCHANGED request
         [] OTHER ->
                /\ pc' = "handle_request"
                /\ request' = line.value
                /\ UNCHANGED exc
    /\ UNCHANGED <<stdin, line, response, now, stdout, consumed, served, calls>>

\* request = json.loads(line)
ParseLine ==
    /\ pc = "strip"
    /\ line.kind # "blank"
    /\ CASE line.kind = "malformed" ->
                /\ pc' = "JSONDecodeError"
                /\ UNCHANGED <<request, exc>>
         [] line.kind = "limit" ->
                /\ pc' = "Exception"
                /\ exc' = <<"maximum recursion depth exceeded">>
                /\ UNCHANGED request
         [] OTHER ->
                /\ pc' = "handle_request"
                /\ request' = line.value
                /\ UNCHANGED exc
    /\ UNCHANGED <<stdin, line, response, now, stdout, consumed, served, calls>>

\* mutant of HandleRequest: a session flag; tools/list and tools/call are
\* refused until an initialize request has been read
HandleRequestSession ==
    /\ pc = "handle_request"
    /\ LET out == handle_request(request, now)
           initialized ==
              \E i \in 1..Len(consumed) :
                 consumed[i].kind = "json" /\ consumed[i].value.method = JStr("initialize")
       IN  /\ calls' = <<"handle_request">> \o out.calls
           /\ pc' = "print"
           /\ response' =
                 IF request.method \in {JStr("tools/list"), JStr("tools/call")}
                    /\ ~initialized
                 THEN create_response(Get(request, "id"), None,
                         Err(-32002, <<"Server not initialized">>))
                 ELSE out.value
    /\ UNCHANGED <<stdin, line, request, exc, now, stdout, consumed, served>>

\* response = calculator.handle_request(request)
HandleRequest ==
    /\ pc = "handle_request"
    /\ LET out == handle_request(request, now)
       IN  /\ calls' = <<"handle_request">> \o out.calls
           /\ IF out.raised
              THEN /\ pc' = "Exception"
                   /\ exc' = out.text
                   /\ UNCHANGED response
              ELSE /\ pc' = "print"
                   /\ response' = out.value
                   /\ UNCHANGED exc
    /\ UNCHANGED <<stdin, line, request, now, stdout, consumed, served>>

\* response_json = json.dumps(response, ensure_ascii=False); print(response_json, flush=True)
PrintResponse ==
    /\ pc = "print"
    /\ IF Encodable(response)
       THEN /\ Write(response)
            /\ pc' = "read"
            /\ UNCHANGED exc
       ELSE /\ pc' = "Exception"
            /\ exc' = <<"'utf-8' codec can't encode character">>
            /\ UNCHANGED <<stdout, served>>
    /\ UNCHANGED <<stdin, line, request, response, now, consumed, calls>>

\* mutant of DecodeError: the error is logged and nothing is written
DecodeErrorSilent ==
    /\ pc = "JSONDecodeError"
    /\ pc' = "read"
    /\ UNCHANGED <<stdin, line, request, response, exc, now, stdout, consumed, served, calls>>

\* except json.JSONDecodeError
DecodeError ==
    /\ pc = "JSONDecodeError"
    /\ Write(ParseErrorResponse)
    /\ pc' = "read"
    /\ UNCHANGED <<stdin, line, request, response, exc, now, consumed, calls>>

\* except Exception
GenericError ==
    /\ pc = "Exception"
    /\ Write(InternalErrorResponse(exc))
    /\ pc' = "read"
    /\ UNCHANGED <<stdin, line, request, response, exc, now, consumed, calls>>

Next ==
    \/ ReadLine
    \/ ReadEOF
    \/ SkipBlank
    \/ ParseLine
    \/ HandleRequest
    \/ PrintResponse
    \/ DecodeError
    \/ GenericError

\* the transport loop on every input stream of at most MaxLines lines
Spec == Init /\ [][Next]_vars

\* the transport loop on every single line
SpecRequest == InitRequest /\ [][Next]_vars

\* the transport loop on every session of at most MaxLines + 1 lines
SpecSession == InitSession /\ [][Next]_vars

---------------------------------------------------------------------------
(* Vocabulary of the properties *)

HasResult(r) == "result" \in DOMAIN r
HasError(r) == "error" \in DOMAIN r
IsErrorWith(r, code) == HasError(r) /\ ~HasResult(r) /\ r.error.code = code

\* handle_request has returned for the current line
Handled == pc = "print"

\* the values Python takes for false
Falsy == {Absent, None, JStr(""), JInt(0), JFloat(0), JBool(FALSE), JList(0), JDict(0)}

\* the request passes the envelope checks and names the method
Routed(method) ==
    /\ IsDict(request)
    /\ request.jsonrpc = JStr("2.0")
    /\ request.method = JStr(method)

\* a tools/call request for add_numbers whose params is a mapping
AddNumbersCall ==
    /\ Routed("tools/call")
    /\ IsDict(request.params)
    /\ request.params.name = JStr("add_numbers")

Missing(v) == v \in {Absent, None}

\* the lines read so far that are not blank
NonBlank(n) == {i \in 1..n : consumed[i].kind # "blank"}

---------------------------------------------------------------------------
(* C1 *)

\* a method handler, or the try block of handle_tools_call, raises on the request
HandlerRaises ==
    /\ IsDict(request)
    /\ request.jsonrpc = JStr("2.0")
    /\ ~(request.method \in Falsy)
    /\ LET params == GetOr(request, "params", NoParams)
           id == Get(request, "id")
       IN  \/ dispatch(request.method, id, params, now).raised
           \/ /\ request.method = JStr("tools/call")
              /\ IsDict(params)
              /\ ~(params.name \in Falsy)
              /\ tools_call_try(id, params.name,
                                GetOr(params, "arguments", NoArguments), now).raised

\* C1: handle_request returns a response for every parsed value and never raises
\* to its caller (the only exception main catches after calling it is the one
\* of print); when a method handler raises, the response is the error -32603
\* with the id of the request (the string "unknown" when the request has none).
C1_HandleRequestTotal ==
    /\ pc = "handle_request" =>
          LET out == handle_request(request, now)
          IN  /\ ~out.raised
              /\ out.value.jsonrpc = "2.0"
              /\ "id" \in DOMAIN out.value
    /\ (pc = "Exception" /\ calls # <<>>) =>
          (exc = <<"'utf-8' codec can't encode character">>)
    /\ (Handled /\ HandlerRaises) =>
          /\ IsErrorWith(response, -32603)
          /\ response.id = IF Missing(request.id) THEN JStr("unknown") ELSE request.id

C1_Witness ==
    /\ Handled
    /\ HandlerRaises
    /\ request.method = JStr("initialize")
    /\ request.id = JInt(1)
    /\ response.id = JInt(1)

---------------------------------------------------------------------------
(* C2 *)

WellFormed(r) ==
    /\ r.jsonrpc = "2.0"
    /\ HasResult(r) # HasError(r)

\* C2: every response, returned by handle_request or written by main, has
\* jsonrpc "2.0" and exactly one of the fields result and error.
C2_ResultXorError ==
    /\ (pc = "print" => WellFormed(response))
    /\ \A k \in 1..Len(stdout) : WellFormed(stdout[k])

\* the dispatcher returned a result that main could not write, and main wrote
\* the response of its catch-all branch instead
C2_Witness ==
    /\ pc = "read"
    /\ Len(stdout) = 1
    /\ HasResult(response)
    /\ stdout[1] = InternalErrorResponse(exc)
    /\ ~ ("data" \in DOMAIN stdout[1].error)

---------------------------------------------------------------------------
(* C3 *)

\* float() reads the value as a number
Parses(v) ==
    \/ v.k \in {"int", "float", "bool"}
    \/ v.k = "str" /\ v.s \in {"2", "2.5", " 3 "}

\* C3: a tools/call of add_numbers with both numbers present and non-null is
\* answered with a result, never a top-level error, and result.isError is true
\* exactly when one of the two values could not be read as a number.
C3_ToolFailureIsResult ==
    (/\ Handled
     /\ AddNumbersCall
     /\ IsDict(request.params.arguments)
     /\ ~Missing(request.params.arguments.number1)
     /\ ~Missing(request.params.arguments.number2))
    => /\ HasResult(response)
       /\ ~HasError(response)
       /\ response.result.isError =
             ~(Parses(request.params.arguments.number1)
               /\ Parses(request.params.arguments.number2))

---------------------------------------------------------------------------
(* C4 *)

\* C4 as stated: whenever main is about to read, it has written one response
\* for every line read, the k-th response answering the k-th line.
C4_OneResponsePerLine ==
    pc \in {"read", "done"} =>
        /\ Len(stdout) = Len(consumed)
        /\ \A k \in 1..Len(served) : served[k].line = k

\* C4 amended: whenever main is about to read, it has written one response for
\* every non-blank line read and none for a blank one, the k-th response
\* answering the k-th non-blank line; while a line is in hand, only its own
\* response is outstanding.
C4_OneResponsePerNonBlankLine ==
    /\ Len(served) = Len(stdout)
    /\ pc \in {"read", "done"} => Len(stdout) = Cardinality(NonBlank(Len(consumed)))
    /\ pc \in {"strip", "handle_request", "print", "JSONDecodeError", "Exception"} =>
          Len(stdout) = Cardinality(NonBlank(Len(consumed) - 1))
    /\ \A k \in 1..Len(served) :
          /\ served[k].line \in NonBlank(Len(consumed))
          /\ Cardinality(NonBlank(served[k].line)) = k

C4_Witness ==
    /\ pc = "done"
    /\ Len(consumed) = 2
    /\ consumed[1] = Blank
    /\ consumed[2] = Malformed
    /\ Len(stdout) = 1

---------------------------------------------------------------------------
(* C5 *)

\* C5: a mapping whose jsonrpc is not "2.0", or whose method is missing or
\* empty, is answered with the error -32600 carrying the id the request gives,
\* and no method handler is entered.
C5_InvalidRequest ==
    (/\ Handled
     /\ IsDict(request)
     /\ \/ request.jsonrpc # JStr("2.0")
        \/ request.method \in {Absent, JStr("")})
    => /\ IsErrorWith(response, -32600)
       /\ ~Missing(request.id) => response.id = request.id
       /\ calls = <<"handle_request">>

C5_Witness ==
    /\ Handled
    /\ IsDict(request)
    /\ request.jsonrpc = JStr("2.0")
    /\ request.method = JStr("")
    /\ request.id = JStr("a")
    /\ response.id = JStr("a")

---------------------------------------------------------------------------
(* C6 *)

NotAnObject(r, id) ==
    /\ IsErrorWith(r, -32700)
    /\ r.error.message = <<"Parse error: request must be an object">>
    /\ r.id = id

\* C6 as stated: a parsed value that is no mapping is answered with the error
\* -32700, "Parse error: request must be an object", and id null.
C6_NotAMappingIdNull ==
    (Handled /\ ~IsDict(request)) => NotAnObject(response, None)

\* C6 amended: a parsed value that is no mapping is answered with the error
\* -32700, "Parse error: request must be an object", and the id "unknown".
C6_NotAMappingIdUnknown ==
    (Handled /\ ~IsDict(request)) => NotAnObject(response, JStr("unknown"))

C6_Witness ==
    /\ Handled
    /\ request = RequestOther(JList(1))
    /\ response.id = JStr("unknown")

---------------------------------------------------------------------------
(* C7 *)

\* C7: a non-blank line that is not JSON gets exactly one response, with id
\* null and error code -32700; handle_request is not called for it, and main
\* goes on to the next line.
C7_MalformedLine ==
    /\ \A k \in 1..Len(served) :
          consumed[served[k].line].kind = "malformed" =>
             /\ stdout[k].id = None
             /\ IsErrorWith(stdout[k], -32700)
             /\ served[k].calls = <<>>
    /\ \A i \in 1..Len(consumed) :
          consumed[i].kind = "malformed" =>
             Cardinality({k \in 1..Len(served) : served[k].line = i})
                = IF i = Len(consumed) /\ pc \in {"strip", "JSONDecodeError"} THEN 0 ELSE 1
    /\ (line.kind = "malformed" /\ pc \notin {"strip", "JSONDecodeError"}) =>
          \/ pc = "read"
          \/ pc = "done" /\ stdin = <<>>

\* a malformed line was answered and the line after it was read
C7_Witness ==
    /\ Len(consumed) = 2
    /\ consumed[1] = Malformed
    /\ Len(stdout) >= 1
    /\ stdout[1] = ParseErrorResponse
    /\ pc = "strip"

---------------------------------------------------------------------------
(* C8 *)

NumberMissing ==
    \/ Missing(request.params.arguments.number1)
    \/ Missing(request.params.arguments.number2)

\* C8 as stated: a tools/call of add_numbers in which number1 or number2 is
\* absent or null is answered with the error -32602, add_numbers not called.
C8_MissingNumber ==
    (Handled /\ AddNumbersCall /\ NumberMissing)
    => /\ IsErrorWith(response, -32602)
       /\ \A c \in 1..Len(calls) : calls[c] # "add_numbers"

\* C8 amended: when arguments is absent or a mapping and number1 or number2
\* is absent or null, the answer is the error -32602; when arguments is
\* present and is no mapping, the answer is the error -32603; add_numbers is
\* called in neither case.
C8_MissingNumberOrArguments ==
    (Handled /\ AddNumbersCall /\ NumberMissing)
    => /\ IF request.params.arguments.k \in {"absent", "dict"}
          THEN IsErrorWith(response, -32602)
          ELSE IsErrorWith(response, -32603)
       /\ \A c \in 1..Len(calls) : calls[c] # "add_numbers"

C8_Witness ==
    /\ Handled
    /\ AddNumbersCall
    /\ request.params.arguments = MkArgs(JInt(2), None)
    /\ IsErrorWith(response, -32602)

---------------------------------------------------------------------------
(* C9 *)

InitializeResult(r, version) ==
    /\ HasResult(r)
    /\ ~HasError(r)
    /\ r.result.protocolVersion = version
    /\ r.result.capabilities =
          [tools |-> EmptyDict, resources |-> EmptyDict, prompts |-> EmptyDict]
    /\ r.result.serverInfo =
          [name |-> "Simple MCP Calculator", version |-> "1.0.0",
           description |-> "Simple calculator that adds two numbers"]

\* C9 as stated: initialize with protocolVersion in params succeeds and echoes
\* the value; without protocolVersion in params it is the error -32602.
C9_InitializeEcho ==
    (Handled /\ Routed("initialize"))
    => IF IsDict(request.params) /\ request.params.protocolVersion # Absent
       THEN InitializeResult(response, request.params.protocolVersion)
       ELSE IsErrorWith(response, -32602)

\* C9 amended: when params is absent or a mapping: a protocolVersion that
\* Python takes for true is echoed with the fixed capabilities and serverInfo,
\* and one that is absent, null, empty or zero is the error -32602; when
\* params is present and is no mapping, it is the error -32603.
C9_InitializeEchoTruthy ==
    (Handled /\ Routed("initialize"))
    => IF request.params.k \in {"absent", "dict"}
       THEN IF request.params.protocolVersion \in Falsy
            THEN IsErrorWith(response, -32602)
            ELSE InitializeResult(response, request.params.protocolVersion)
       ELSE IsErrorWith(response, -32603)

C9_Witness ==
    /\ Handled
    /\ Routed("initialize")
    /\ request.params.protocolVersion = JStr("2024-11-05")
    /\ HasResult(response)
    /\ response.result.protocolVersion = JStr("2024-11-05")

---------------------------------------------------------------------------
(* C10 *)

\* a response without its text content, the part that shows the timestamp
Untimed(r) ==
    IF HasResult(r) /\ "content" \in DOMAIN r.result
    THEN [r EXCEPT !.result = [isError |-> r.result.isError]]
    ELSE r

\* C10: the same line gets the same response wherever it stands in the input:
\* the same apart from the timestamp, and the same altogether when the clock
\* reads the same.
C10_NoSessionState ==
    \A i \in 1..Len(served) : \A j \in 1..Len(served) :
        consumed[served[i].line] = consumed[served[j].line] =>
            /\ Untimed(stdout[i]) = Untimed(stdout[j])
            /\ served[i].at = served[j].at => stdout[i] = stdout[j]
            /\ served[i].calls = served[j].calls

\* tools/list answered before and after an initialize
C10_Witness ==
    /\ Len(consumed) = 3
    /\ Len(stdout) = 3
    /\ consumed[1] = consumed[3]
    /\ consumed[1].value.method = JStr("tools/list")
    /\ consumed[2].value.method = JStr("initialize")
    /\ HasResult(stdout[1])
    /\ HasResult(stdout[2])
    /\ stdout[1] = stdout[3]

=============================================================================
